---- MODULE Spec2Model ----
(***************************************************************************)
(* ToDo-list-app backend: the Access Gate (middleware/auth.js), the        *)
(* Credential Verifier (routes/auth.js), the profile accessors             *)
(* (routes/user.js) and the Task Service (routes/task.js) over the Task    *)
(* and User models (models/task.js, models/user.js).                       *)
(*                                                                         *)
(* Strings that the code trims or measures (title, description, names)     *)
(* are sequences of one-character strings.  A JSON request body is a       *)
(* function whose DOMAIN is the set of fields the body carries.  The clock *)
(* `now` counts days.                                                      *)
(***************************************************************************)
EXTENDS Integers, Sequences, FiniteSets, TLC

VARIABLES users, regs, tasks, nextTaskId, creator, tokens, now, last, nullPassesEnum

\* The client: the tasks slice of the Redux store, the thunks in flight,
\* the id of the next thunk, the token in localStorage, the page the router
\* shows, what is remembered of the logins and logouts (for the properties
\* only), the signup form
VARIABLES slice, thunks, nextRequestId, storage, page, session, signup

client == <<slice, thunks, nextRequestId, storage, page, session, signup>>

server == <<users, regs, tasks, nextTaskId, creator, tokens, now, last, nullPassesEnum>>

vars == <<server, client>>

-----------------------------------------------------------------------------
(* Bounds of the model *)

MaxTasks == 1
MaxListTasks == 2
MaxTaskTime == 1
MaxLoginTime == 0
MaxTime == 8
MaxUsers == 2
MaxRequests == 3
MaxSignups == 3

-----------------------------------------------------------------------------
(* Program constants *)

MaxTitleLength == 100
MaxDescriptionLength == 500
MinNameLength == 2
MaxNameLength == 50
ExpiresIn == 7

StatusEnum == {"pending", "in-progress", "completed"}
DefaultStatus == "pending"
JwtSecret == "JWT_SECRET"

\* An id parameter that is not a 24-hex-digit ObjectId string.
BadId == 0
ObjectIdIsValid(id) == id # BadId

UserIds == {1, 2}

-----------------------------------------------------------------------------
(* Strings *)

Has(body, f) == f \in DOMAIN body

RECURSIVE TrimStart(_)
TrimStart(s) ==
  IF s # <<>> /\ Head(s) = " " THEN TrimStart(Tail(s)) ELSE s

RECURSIVE TrimEnd(_)
TrimEnd(s) ==
  IF s # <<>> /\ s[Len(s)] = " " THEN TrimEnd(SubSeq(s, 1, Len(s) - 1)) ELSE s

\* String.prototype.trim, the schema's `trim: true` setter
Trim(s) == TrimEnd(TrimStart(s))

\* The empty string of a field: status values are atoms, the strings the
\* code trims, measures or changes the case of are character sequences.
EmptyString(f) == IF f = "status" THEN "" ELSE <<>>

UpperCase ==
  <<"A", "B", "C", "D", "E", "F", "G", "H", "I", "J", "K", "L", "M",
    "N", "O", "P", "Q", "R", "S", "T", "U", "V", "W", "X", "Y", "Z">>
LowerCase ==
  <<"a", "b", "c", "d", "e", "f", "g", "h", "i", "j", "k", "l", "m",
    "n", "o", "p", "q", "r", "s", "t", "u", "v", "w", "x", "y", "z">>
Digits == {"0", "1", "2", "3", "4", "5", "6", "7", "8", "9"}

\* String.prototype.toLowerCase, the schema's `lowercase: true` setter
ToLowerCaseChar(c) ==
  IF \E i \in DOMAIN UpperCase : UpperCase[i] = c
  THEN LowerCase[CHOOSE i \in DOMAIN UpperCase : UpperCase[i] = c]
  ELSE c
ToLowerCase(s) == [i \in DOMAIN s |-> ToLowerCaseChar(s[i])]

\* JSON null, as the value of a status field
Null == "null"

\* JavaScript truthiness of a body (or query) field holding a string or
\* null: undefined (field not in the body), "" and null are falsy.
Truthy(body, f) ==
  /\ Has(body, f)
  /\ body[f] # EmptyString(f)
  /\ f = "status" => body[f] # Null

-----------------------------------------------------------------------------
(* Session Token (jsonwebtoken) *)

\* jwt.sign({ id }, secret, { expiresIn: '7d' }) at time t
JwtSign(id, secret, t) ==
  [id |-> id, iat |-> t, exp |-> t + ExpiresIn, sig |-> secret]

\* Mutant of JwtVerify: a token is still accepted at its expiry time
JwtVerify_Inclusive(token, secret, t) ==
  /\ token.sig = secret
  /\ t <= token.exp

\* jwt.verify(token, secret) at time t does not throw: the signature is the
\* secret's and the clock has not reached exp.
JwtVerify(token, secret, t) ==
  /\ token.sig = secret
  /\ t < token.exp

-----------------------------------------------------------------------------
(* Access Gate: middleware/auth.js *)

\* An Authorization header is the string prefix \o rest; a request without
\* the header has present = FALSE.
NoToken == [id |-> 0, iat |-> 0, exp |-> 0, sig |-> ""]
NoHeader == [present |-> FALSE, prefix |-> "", rest |-> NoToken]
Header(prefix, token) == [present |-> TRUE, prefix |-> prefix, rest |-> token]
Bearer(token) == Header("Bearer ", token)

StartsWithBearer(hdr) == hdr.prefix = "Bearer "

AuthRequired == "Authentication required"
AuthInvalid == "Invalid or expired token"

\* Mutant of Auth: a token that fails verification is answered like a
\* missing header
Auth_OneMessage(hdr, t) ==
  IF hdr.present /\ StartsWithBearer(hdr) /\ JwtVerify(hdr.rest, JwtSecret, t)
  THEN [next |-> TRUE, status |-> 0, error |-> "", user |-> hdr.rest.id]
  ELSE [next |-> FALSE, status |-> 401, error |-> AuthRequired, user |-> 0]

\* next = TRUE: the handler runs with req.user = [id |-> user].
Auth(hdr, t) ==
  IF ~hdr.present \/ ~StartsWithBearer(hdr)
  THEN [next |-> FALSE, status |-> 401, error |-> AuthRequired, user |-> 0]
  ELSE IF JwtVerify(hdr.rest, JwtSecret, t)
       THEN [next |-> TRUE, status |-> 0, error |-> "", user |-> hdr.rest.id]
       ELSE [next |-> FALSE, status |-> 401, error |-> AuthInvalid, user |-> 0]

-----------------------------------------------------------------------------
(* Task model: models/task.js *)

TaskPaths == {"title", "description", "status", "userId"}

\* Mutant of StringPathValid: the length must be below maxLength
StringPathValid_Exclusive(v, maxLength) == v # <<>> /\ Len(v) < maxLength

\* required + maxLength validators of a String path, on the value after the
\* trim setter
StringPathValid(v, maxLength) == v # <<>> /\ Len(v) <= maxLength

\* Mutant of StatusValid: the status path has no enum validator
StatusValid_Any(v) == TRUE

\* enum validator of the status path: a value of the enumeration; null
\* passes or fails with the version of Mongoose that is installed
StatusValid(v) == v \in StatusEnum \/ (v = Null /\ nullPassesEnum)

\* Validators of one path of taskSchema
PathValid(f, v) ==
  CASE f = "title" -> StringPathValid(v, MaxTitleLength)
    [] f = "description" -> StringPathValid(v, MaxDescriptionLength)
    [] f = "status" -> StatusValid(v)
    [] OTHER -> TRUE

\* Mutant of CastPath: no trim setter
CastPath_NoTrim(f, v) == v

\* Setters of one path of taskSchema (trim: true)
CastPath(f, v) == IF f \in {"title", "description"} THEN Trim(v) ELSE v

\* new Task({ title, description, userId }): setters, the status default,
\* the id and the creation timestamp
NewTask(id, title, description, userId, t) ==
  [id |-> id,
   title |-> CastPath("title", title),
   description |-> CastPath("description", description),
   status |-> DefaultStatus,
   userId |-> userId,
   createdAt |-> t]

\* task.save() passes validation
TaskValid(doc) == \A f \in TaskPaths : PathValid(f, doc[f])

\* { $set: req.body } cast against the schema: paths outside the schema are
\* dropped (strict mode), setters are applied
CastUpdate(body) ==
  [f \in DOMAIN body \cap TaskPaths |-> CastPath(f, body[f])]

\* runValidators: true, the validators of the paths being set
UpdateValid(set) == \A f \in DOMAIN set : PathValid(f, set[f])

\* Mutant of ApplySet: the document is replaced, a status that is not set
\* goes back to the default
ApplySet_Replace(doc, set) ==
  [f \in DOMAIN doc |->
     IF f \in DOMAIN set THEN set[f] ELSE IF f = "status" THEN DefaultStatus ELSE doc[f]]

\* findOneAndUpdate with $set: the paths that are set take the cast values,
\* the others stay
ApplySet(doc, set) ==
  [f \in DOMAIN doc |-> IF f \in DOMAIN set THEN set[f] ELSE doc[f]]

\* Mutant of FindOne: the query leaves out the owner
FindOne_AnyOwner(store, id, userId) == {d \in store : d.id = id}

\* Task.findOne({ _id, userId }): the set of matches (at most one)
FindOne(store, id, userId) == {d \in store : d.id = id /\ d.userId = userId}

-----------------------------------------------------------------------------
(* Task Service: routes/task.js.  Each handler is given the Task Store, the *)
(* identity the gate attached (req.user.id) and the request, and yields the *)
(* response and the Task Store it leaves.                                   *)

Reply(status, body, store) == [status |-> status, body |-> body, tasks |-> store]
Error(msg) == [error |-> msg]

\* router.post('/')
CreateTask(store, user, body, id, t) ==
  IF ~Truthy(body, "title") \/ ~Truthy(body, "description")
  THEN Reply(400, Error("Title and description are required"), store)
  ELSE LET task == NewTask(id, body.title, body.description, user, t)
       IN IF TaskValid(task)
          THEN Reply(201, task, store \cup {task})
          ELSE Reply(400, Error("Task validation failed"), store)

\* All orders of a finite set
Orders(S) ==
  {s \in [1..Cardinality(S) -> S] : \A i, j \in DOMAIN s : i # j => s[i] # s[j]}

\* Mutant of SortedByCreatedAtDesc: .sort({ createdAt: 1 })
SortedByCreatedAtAsc(S) ==
  {s \in Orders(S) : \A i, j \in DOMAIN s : i < j => s[i].createdAt <= s[j].createdAt}

\* .sort({ createdAt: -1 }): every order that is descending in createdAt
\* (the order among equal timestamps is the store's choice)
SortedByCreatedAtDesc(S) ==
  {s \in Orders(S) : \A i, j \in DOMAIN s : i < j => s[i].createdAt >= s[j].createdAt}

\* Mutant of ListQuery: the status filter is never added to the query
ListQuery_NoFilter(store, user, query) == {d \in store : d.userId = user}

\* The query of router.get('/')
ListQuery(store, user, query) ==
  IF Truthy(query, "status") /\ query.status \in StatusEnum
  THEN {d \in store : d.userId = user /\ d.status = query.status}
  ELSE {d \in store : d.userId = user}

\* router.get('/'): the responses it may give
ListTasks(store, user, query) ==
  {Reply(200, s, store) : s \in SortedByCreatedAtDesc(ListQuery(store, user, query))}

\* Mutant of GetTask: a Task of another identity is answered 403
GetTask_Forbidden(store, user, id) ==
  IF ~ObjectIdIsValid(id)
  THEN Reply(400, Error("Invalid task ID"), store)
  ELSE IF FindOne(store, id, user) # {}
  THEN Reply(200, CHOOSE d \in FindOne(store, id, user) : TRUE, store)
  ELSE IF \E d \in store : d.id = id
  THEN Reply(403, Error("Forbidden"), store)
  ELSE Reply(404, Error("Task not found"), store)

\* router.get('/:id')
GetTask(store, user, id) ==
  IF ~ObjectIdIsValid(id)
  THEN Reply(400, Error("Invalid task ID"), store)
  ELSE LET found == FindOne(store, id, user)
       IN IF found = {}
          THEN Reply(404, Error("Task not found"), store)
          ELSE Reply(200, CHOOSE d \in found : TRUE, store)

\* router.put('/:id')
UpdateTask(store, user, id, body) ==
  IF ~ObjectIdIsValid(id)
  THEN Reply(400, Error("Invalid task ID"), store)
  ELSE IF Truthy(body, "status") /\ body.status \notin StatusEnum
  THEN Reply(400, Error("Invalid status value"), store)
  ELSE LET set == CastUpdate(body)
           found == FindOne(store, id, user)
       IN IF ~UpdateValid(set)
          THEN Reply(400, Error("Validation failed"), store)
          ELSE IF found = {}
          THEN Reply(404, Error("Task not found"), store)
          ELSE LET old == CHOOSE d \in found : TRUE
                   new == ApplySet(old, set)
               IN Reply(200, new, (store \ {old}) \cup {new})

\* Mutant of DeleteTask: the Task is found but not removed
DeleteTask_Keep(store, user, id) ==
  IF ~ObjectIdIsValid(id)
  THEN Reply(400, Error("Invalid task ID"), store)
  ELSE IF FindOne(store, id, user) = {}
       THEN Reply(404, Error("Task not found"), store)
       ELSE Reply(200, [message |-> "Task deleted successfully"], store)

\* router.delete('/:id')
DeleteTask(store, user, id) ==
  IF ~ObjectIdIsValid(id)
  THEN Reply(400, Error("Invalid task ID"), store)
  ELSE LET found == FindOne(store, id, user)
       IN IF found = {}
          THEN Reply(404, Error("Task not found"), store)
          ELSE Reply(200, [message |-> "Task deleted successfully"], store \ found)

-----------------------------------------------------------------------------
(* User model and the profile accessors: models/user.js, routes/user.js *)

\* bcrypt.hash / bcrypt.compare: the hash is irreversible and matches only
\* the password it was made from
BcryptHash(password) == <<"bcrypt", password>>
BcryptCompare(password, hash) == hash = BcryptHash(password)

\* User.findById(id)
FindById(ustore, id) == {u \in ustore : u.id = id}

\* .select('-password')
SelectWithoutPassword(u) == [f \in DOMAIN u \ {"password"} |-> u[f]]

UReply(status, body, ustore) == [status |-> status, body |-> body, users |-> ustore]

\* minLength / maxLength validators of firstName and lastName, after trim
NameValid(v) == Len(v) >= MinNameLength /\ Len(v) <= MaxNameLength

\* router.get('/profile')
GetProfile(ustore, user) ==
  LET found == FindById(ustore, user)
  IN IF found = {}
     THEN UReply(404, Error("User not found"), ustore)
     ELSE UReply(200, SelectWithoutPassword(CHOOSE u \in found : TRUE), ustore)

\* router.put('/profile') if it handed the whole request body to the update
UpdateProfile_WholeBody(ustore, user, body) ==
  IF ~Truthy(body, "firstName") \/ ~Truthy(body, "lastName")
  THEN UReply(400, Error("First name and last name are required"), ustore)
  ELSE IF Len(body.firstName) < MinNameLength \/ Len(body.firstName) > MaxNameLength
  THEN UReply(400, Error("First name must be between 2 and 50 characters"), ustore)
  ELSE IF Len(body.lastName) < MinNameLength \/ Len(body.lastName) > MaxNameLength
  THEN UReply(400, Error("Last name must be between 2 and 50 characters"), ustore)
  ELSE LET firstName == Trim(body.firstName)
           lastName == Trim(body.lastName)
           found == FindById(ustore, user)
       IN IF ~NameValid(firstName) \/ ~NameValid(lastName)
          THEN UReply(500, Error("Internal server error"), ustore)
          ELSE IF found = {}
          THEN UReply(404, Error("User not found"), ustore)
          ELSE LET old == CHOOSE u \in found : TRUE
                   new == [old EXCEPT !.firstName = firstName, !.lastName = lastName,
                                      !.email = IF Has(body, "email") THEN body.email ELSE @]
               IN UReply(200, SelectWithoutPassword(new), (ustore \ {old}) \cup {new})

\* router.put('/profile')
UpdateProfile(ustore, user, body) ==
  IF ~Truthy(body, "firstName") \/ ~Truthy(body, "lastName")
  THEN UReply(400, Error("First name and last name are required"), ustore)
  ELSE IF Len(body.firstName) < MinNameLength \/ Len(body.firstName) > MaxNameLength
  THEN UReply(400, Error("First name must be between 2 and 50 characters"), ustore)
  ELSE IF Len(body.lastName) < MinNameLength \/ Len(body.lastName) > MaxNameLength
  THEN UReply(400, Error("Last name must be between 2 and 50 characters"), ustore)
  ELSE LET firstName == Trim(body.firstName)
           lastName == Trim(body.lastName)
           found == FindById(ustore, user)
       IN IF ~NameValid(firstName) \/ ~NameValid(lastName)
          THEN UReply(500, Error("Internal server error"), ustore)
          ELSE IF found = {}
          THEN UReply(404, Error("User not found"), ustore)
          ELSE LET old == CHOOSE u \in found : TRUE
                   new == [old EXCEPT !.firstName = firstName, !.lastName = lastName]
               IN UReply(200, SelectWithoutPassword(new), (ustore \ {old}) \cup {new})

-----------------------------------------------------------------------------
(* Credential Verifier: routes/auth.js *)

\* Setters of the email path of userSchema (trim: true, lowercase: true)
CastEmail(v) == ToLowerCase(Trim(v))

\* Mutant of FindByEmail: the filter is not cast with the path's setters
FindByEmail_NoCast(ustore, email) == {u \in ustore : u.email = email}

\* User.findOne({ email }): the filter is cast with the setters of the path
FindByEmail(ustore, email) == {u \in ustore : u.email = CastEmail(email)}

\* Mutant of Login: an email that is not registered gets a message of its
\* own
Login_TellsApart(ustore, body, t) ==
  LET found == IF Has(body, "email") THEN FindByEmail(ustore, body.email) ELSE {}
  IN IF found = {}
     THEN [status |-> 404, body |-> Error("User not found"), token |-> NoToken]
     ELSE LET user == CHOOSE u \in found : TRUE
          IN IF ~Has(body, "password")
             THEN [status |-> 500, body |-> Error("Internal server error"), token |-> NoToken]
             ELSE IF ~BcryptCompare(body.password, user.password)
             THEN [status |-> 404, body |-> Error("Invalid email or password"), token |-> NoToken]
             ELSE [status |-> 200, body |-> [message |-> "Login successful"],
                   token |-> JwtSign(user.id, JwtSecret, t)]

\* router.post('/') of routes/auth.js at time t: the status and, on
\* success, the token
Login(ustore, body, t) ==
  LET found == IF Has(body, "email") THEN FindByEmail(ustore, body.email) ELSE {}
  IN IF found = {}
     THEN [status |-> 404, body |-> Error("Invalid email or password"), token |-> NoToken]
     ELSE LET user == CHOOSE u \in found : TRUE
          IN IF ~Has(body, "password")
             THEN [status |-> 500, body |-> Error("Internal server error"), token |-> NoToken]
             ELSE IF ~BcryptCompare(body.password, user.password)
             THEN [status |-> 404, body |-> Error("Invalid email or password"), token |-> NoToken]
             ELSE [status |-> 200, body |-> [message |-> "Login successful"],
                   token |-> JwtSign(user.id, JwtSecret, t)]

-----------------------------------------------------------------------------
(* Registration: validateUser of models/user.js and router.post('/') of     *)
(* routes/user.js                                                           *)

MinPasswordLength == 8
MaxPasswordLength == 26

UserPaths == <<"firstName", "lastName", "email", "password">>

Count(s, c) == Cardinality({i \in DOMAIN s : s[i] = c})
IsLower(c) == \E i \in DOMAIN LowerCase : LowerCase[i] = c
IsUpper(c) == \E i \in DOMAIN UpperCase : UpperCase[i] = c
IsSymbol(c) == ~IsLower(c) /\ ~IsUpper(c) /\ c \notin Digits

\* Joi.string().email(): one "@" after a local part, then a domain of two or
\* more non-empty segments; no white space
EmailValid(e) ==
  /\ Count(e, "@") = 1
  /\ Count(e, " ") = 0
  /\ LET at == CHOOSE i \in DOMAIN e : e[i] = "@"
     IN /\ at > 1
        /\ at < Len(e)
        /\ e[at + 1] # "." /\ e[Len(e)] # "."
        /\ \E i \in (at + 1)..Len(e) : e[i] = "."
        /\ \A i \in (at + 1)..(Len(e) - 1) : ~(e[i] = "." /\ e[i + 1] = ".")

Quoted(f) == "\"" \o f \o "\""

\* The first error of Joi.string().min(2).max(50).required() on body[f], ""
\* when there is none
NameError(body, f) ==
  IF ~Has(body, f) THEN Quoted(f) \o " is required"
  ELSE IF body[f] = <<>> THEN Quoted(f) \o " is not allowed to be empty"
  ELSE IF Len(body[f]) < MinNameLength
  THEN Quoted(f) \o " length must be at least 2 characters long"
  ELSE IF Len(body[f]) > MaxNameLength
  THEN Quoted(f) \o " length must be less than or equal to 50 characters long"
  ELSE ""

\* The first error of Joi.string().email().required()
EmailError(body) ==
  IF ~Has(body, "email") THEN "\"email\" is required"
  ELSE IF body.email = <<>> THEN "\"email\" is not allowed to be empty"
  ELSE IF ~EmailValid(body.email) THEN "\"email\" must be a valid email"
  ELSE ""

\* The first error of passwordComplexity().required(): length 8 to 26, a
\* lower-case letter, an upper-case letter, a digit and a symbol
PasswordError(body) ==
  IF ~Has(body, "password") THEN "\"password\" is required"
  ELSE LET p == body.password
       IN IF Len(p) < MinPasswordLength
          THEN "\"password\" should be at least 8 characters long"
          ELSE IF Len(p) > MaxPasswordLength
          THEN "\"password\" should not be longer than 26 characters"
          ELSE IF ~\E i \in DOMAIN p : IsLower(p[i])
          THEN "\"password\" should contain at least 1 lower-cased letter"
          ELSE IF ~\E i \in DOMAIN p : IsUpper(p[i])
          THEN "\"password\" should contain at least 1 upper-cased letter"
          ELSE IF ~\E i \in DOMAIN p : p[i] \in Digits
          THEN "\"password\" should contain at least 1 number"
          ELSE IF ~\E i \in DOMAIN p : IsSymbol(p[i])
          THEN "\"password\" should contain at least 1 symbol"
          ELSE ""

\* The error of one key of the Joi schema
PathError(body, f) ==
  CASE f = "email" -> EmailError(body)
    [] f = "password" -> PasswordError(body)
    [] OTHER -> NameError(body, f)

\* Mutant of ValidateUser: the names are not checked
ValidateUser_NoNames(body) ==
  IF EmailError(body) # "" THEN EmailError(body) ELSE PasswordError(body)

\* validateUser(req.body).error.details[0].message, "" when there is no
\* error: Joi checks the keys in the order of the schema and stops at the
\* first error (abortEarly); keys outside the schema are an error too
ValidateUser(body) ==
  IF \E i \in DOMAIN UserPaths : PathError(body, UserPaths[i]) # ""
  THEN LET first == CHOOSE i \in DOMAIN UserPaths :
                      /\ PathError(body, UserPaths[i]) # ""
                      /\ \A j \in 1..(i - 1) : PathError(body, UserPaths[j]) = ""
       IN PathError(body, UserPaths[first])
  ELSE IF \E f \in DOMAIN body : \A i \in DOMAIN UserPaths : UserPaths[i] # f
  THEN Quoted(CHOOSE f \in DOMAIN body : \A i \in DOMAIN UserPaths : UserPaths[i] # f)
         \o " is not allowed"
  ELSE ""

\* new User({ ...req.body, password: hashedPassword }): the setters of the
\* schema and the hash
NewUser(id, body) ==
  [id |-> id,
   firstName |-> Trim(body.firstName),
   lastName |-> Trim(body.lastName),
   email |-> CastEmail(body.email),
   password |-> BcryptHash(body.password)]

\* The validators of userSchema, on the values after the setters
UserValid(user) ==
  /\ NameValid(user.firstName)
  /\ NameValid(user.lastName)
  /\ user.email # <<>>

\* Mutant of SaveUser: the email path has no unique index
SaveUser_NoIndex(ustore, user) ==
  IF ~UserValid(user)
  THEN UReply(500, Error("Internal server error"), ustore)
  ELSE UReply(201, [message |-> "User created successfully"], ustore \cup {user})

\* user.save() and what follows it: a document that fails the validators
\* or the unique index on email makes save() throw, which the catch block
\* answers
SaveUser(ustore, user) ==
  IF ~UserValid(user) \/ \E u \in ustore : u.email = user.email
  THEN UReply(500, Error("Internal server error"), ustore)
  ELSE UReply(201, [message |-> "User created successfully"], ustore \cup {user})

\* Mutant of RegisterRejects: no lookup by email before the save
RegisterRejects_NoLookup(ustore, body) == ValidateUser(body) # ""

\* router.post('/') up to the hashing of the password: the response it
\* gives without saving, if any
RegisterRejects(ustore, body) ==
  ValidateUser(body) # "" \/ FindByEmail(ustore, body.email) # {}

Rejection(ustore, body) ==
  IF ValidateUser(body) # ""
  THEN UReply(400, Error(ValidateUser(body)), ustore)
  ELSE UReply(409, Error("User with given email already exists"), ustore)

\* router.post('/') of routes/user.js served without interleaving
Register(ustore, body, id) ==
  IF RegisterRejects(ustore, body)
  THEN Rejection(ustore, body)
  ELSE SaveUser(ustore, NewUser(id, body))

-----------------------------------------------------------------------------
(* Protected routes: router.<verb>(path, auth, handler).  The handler runs  *)
(* only when the gate calls next(); otherwise the gate's response is the    *)
(* response and the stores are as they were.                                *)

PostTask(store, hdr, body, id, t) ==
  LET a == Auth(hdr, t)
  IN IF a.next THEN CreateTask(store, a.user, body, id, t)
     ELSE Reply(a.status, Error(a.error), store)

GetTasks(store, hdr, query, t) ==
  LET a == Auth(hdr, t)
  IN IF a.next THEN ListTasks(store, a.user, query)
     ELSE {Reply(a.status, Error(a.error), store)}

GetTaskById(store, hdr, id, t) ==
  LET a == Auth(hdr, t)
  IN IF a.next THEN GetTask(store, a.user, id)
     ELSE Reply(a.status, Error(a.error), store)

PutTask(store, hdr, id, body, t) ==
  LET a == Auth(hdr, t)
  IN IF a.next THEN UpdateTask(store, a.user, id, body)
     ELSE Reply(a.status, Error(a.error), store)

\* Mutant of DeleteTaskById: the route is registered without the gate and
\* the handler takes the identity the token names
DeleteTaskById_NoGate(store, hdr, id, t) == DeleteTask(store, hdr.rest.id, id)

DeleteTaskById(store, hdr, id, t) ==
  LET a == Auth(hdr, t)
  IN IF a.next THEN DeleteTask(store, a.user, id)
     ELSE Reply(a.status, Error(a.error), store)

GetUserProfile(ustore, hdr, t) ==
  LET a == Auth(hdr, t)
  IN IF a.next THEN GetProfile(ustore, a.user)
     ELSE UReply(a.status, Error(a.error), ustore)

PutUserProfile(ustore, hdr, body, t) ==
  LET a == Auth(hdr, t)
  IN IF a.next THEN UpdateProfile(ustore, a.user, body)
     ELSE UReply(a.status, Error(a.error), ustore)

-----------------------------------------------------------------------------
(* Store faults: the catch block of each handler *)

\* error.message of what a store call throws when the store fails
StoreFaults ==
  { "connect ECONNREFUSED 127.0.0.1:27017",
    "Operation tasks.findOne() buffering timed out after 10000ms" }

TaskOps == {"create", "list", "get", "update", "delete"}
UserOps == {"register", "login", "profile", "editProfile"}

\* The handler of a Task route gets as far as its store call: none of the
\* checks before it returns
ReachesTaskStore(op, id, body) ==
  CASE op = "create" -> Truthy(body, "title") /\ Truthy(body, "description")
    [] op = "list" -> TRUE
    [] op = "update" ->
         ObjectIdIsValid(id) /\ ~(Truthy(body, "status") /\ body.status \notin StatusEnum)
    [] OTHER -> ObjectIdIsValid(id)

\* The catch blocks of routes/task.js, given what was thrown
TaskCatch(op, store, detail) ==
  Reply(IF op \in {"create", "update"} THEN 400 ELSE 500, Error(detail), store)

\* The handler of a route of routes/user.js or routes/auth.js gets as far
\* as its store call
ReachesUserStore(op, body) ==
  CASE op = "register" -> ValidateUser(body) = ""
    [] op = "editProfile" ->
         /\ Truthy(body, "firstName") /\ Truthy(body, "lastName")
         /\ Len(body.firstName) >= MinNameLength /\ Len(body.firstName) <= MaxNameLength
         /\ Len(body.lastName) >= MinNameLength /\ Len(body.lastName) <= MaxNameLength
    [] OTHER -> TRUE

\* The catch blocks of routes/user.js and routes/auth.js
UserCatch(op, ustore, detail) == UReply(500, Error("Internal server error"), ustore)

-----------------------------------------------------------------------------
(* Client store: Frontend/src/features/taskSlice.js.  The state of the    *)
(* slice is a record of items (a sequence of Tasks as the server returned *)
(* them), status and error; an action is a record of the thunk's type,    *)
(* the phase of its lifecycle and the payload.                            *)

\* initialState
initialState == [items |-> <<>>, status |-> "idle", error |-> Null]

\* reducers.clearTasks
clearTasks(state) ==
  [state EXCEPT !.items = <<>>, !.status = "idle", !.error = Null]

\* state.items.findIndex(task => task._id === id): the first index, 0 for -1
FindIndex(items, id) ==
  IF \E i \in DOMAIN items : items[i].id = id
  THEN CHOOSE i \in DOMAIN items :
         items[i].id = id /\ \A j \in 1..(i - 1) : items[j].id # id
  ELSE 0

\* state.items.filter(task => task._id !== id)
RECURSIVE Filter(_, _)
Filter(items, id) ==
  IF items = <<>> THEN <<>>
  ELSE IF Head(items).id # id
       THEN <<Head(items)>> \o Filter(Tail(items), id)
       ELSE Filter(Tail(items), id)

Action(type, phase, payload) == [type |-> type, phase |-> phase, payload |-> payload]

\* extraReducers: the cases of the builder; an action with no case leaves
\* the state as it is
taskReducer(state, action) ==
  CASE action.type = "fetchTasks" /\ action.phase = "pending" ->
         [state EXCEPT !.status = "loading", !.error = Null]
    [] action.type = "fetchTasks" /\ action.phase = "fulfilled" ->
         [state EXCEPT !.status = "succeeded", !.items = action.payload]
    [] action.type = "fetchTasks" /\ action.phase = "rejected" ->
         [state EXCEPT !.status = "failed", !.error = action.payload]
    [] action.type = "addTask" /\ action.phase = "fulfilled" ->
         [state EXCEPT !.items = Append(@, action.payload)]
    [] action.type = "updateTask" /\ action.phase = "fulfilled" ->
         LET index == FindIndex(state.items, action.payload.id)
         IN IF index # 0
            THEN [state EXCEPT !.items[index] = action.payload]
            ELSE state
    [] action.type = "deleteTask" /\ action.phase = "fulfilled" ->
         [state EXCEPT !.items = Filter(@, action.payload)]
    [] OTHER -> state

ThunkTypes == {"fetchTasks", "addTask", "updateTask", "deleteTask"}

\* The message of a thunk whose request got no error message in the
\* response
DefaultMessage(type) ==
  CASE type = "fetchTasks" -> "Failed to fetch tasks"
    [] type = "addTask" -> "Failed to add task"
    [] type = "updateTask" -> "Failed to update task"
    [] type = "deleteTask" -> "Failed to delete task"

\* A request that has no response yet
NoResponse == [status |-> 0, data |-> <<>>]

\* createAsyncThunk: a thunk that has dispatched its pending action and
\* sent its request with the token of localStorage
Thunk(requestId, type, arg, token) ==
  [requestId |-> requestId, type |-> type, arg |-> arg,
   hdr |-> IF token = NoToken THEN NoHeader ELSE Bearer(token),
   response |-> NoResponse]

\* The route a thunk calls, on the Task Store: the set of the responses
\* the server may give (one, but for the order of the Tasks of a List that
\* have the same age)
Route(thunk, store, id, t) ==
  CASE thunk.type = "fetchTasks" -> GetTasks(store, thunk.hdr, <<>>, t)
    [] thunk.type = "addTask" -> {PostTask(store, thunk.hdr, thunk.arg, id, t)}
    [] thunk.type = "updateTask" ->
         {PutTask(store, thunk.hdr, thunk.arg.id, thunk.arg.task, t)}
    [] thunk.type = "deleteTask" -> {DeleteTaskById(store, thunk.hdr, thunk.arg, t)}

\* The operation of the Task Service a thunk asks for
RouteOp(type) ==
  CASE type = "fetchTasks" -> "list"
    [] type = "addTask" -> "create"
    [] type = "updateTask" -> "update"
    [] type = "deleteTask" -> "delete"

\* The action a thunk dispatches when its request is answered: fulfilled
\* with response.data (deleteTask: with the id it was given) for a 2xx
\* response, rejected with the error message of the response or the
\* default message otherwise
Settled(thunk) ==
  LET response == thunk.response
  IN IF response.status < 400
     THEN Action(thunk.type, "fulfilled",
                 IF thunk.type = "deleteTask" THEN thunk.arg ELSE response.data)
     ELSE Action(thunk.type, "rejected",
                 IF Has(response.data, "error") /\ response.data.error # ""
                 THEN response.data.error
                 ELSE DefaultMessage(thunk.type))

\* validateForm of the Signup page: the errors by field, none when the
\* form may be sent
SignupErrors(data) ==
  LET required == {f \in {"firstName", "lastName", "email", "password"} : data[f] = <<>>}
      short == data.password # <<>> /\ Len(data.password) < 8
  IN [f \in required \cup (IF short THEN {"password"} ELSE {}) |->
        CASE f = "firstName" -> "First name is required"
          [] f = "lastName" -> "Last name is required"
          [] f = "email" -> "Email is required"
          [] f = "password" ->
               IF short THEN "Password must be at least 8 characters long"
               ELSE "Password is required"]

\* handleSubmit of the Signup page up to its await: the form with errors
\* is not sent; otherwise success is announced with alert() and then the
\* form is posted
SignupSubmit(form, data) ==
  IF DOMAIN SignupErrors(data) # {}
  THEN [form EXCEPT !.errors = SignupErrors(data)]
  ELSE [form EXCEPT !.alerts = @ + 1, !.posted = data]

\* handleSubmit of the Signup page from the answer on, given the response
\* r: the page to show and the form
SignupSettle(form, r) ==
  IF r.status < 400
  THEN [page |-> "/login",
        form |-> [form EXCEPT !.posted = <<>>, !.answers = Append(@, r.status)]]
  ELSE [page |-> "/signup",
        form |-> [form EXCEPT !.posted = <<>>, !.answers = Append(@, r.status),
                              !.errors = [submit |->
                                IF Has(r.body, "error") /\ r.body.error # ""
                                THEN r.body.error
                                ELSE "Registration failed. Please try again."]]]

\* validateForm of the Main page
validateForm(formData) ==
  IF ~Has(formData, "title") \/ Trim(formData.title) = <<>>
  THEN "Title is required"
  ELSE IF ~Has(formData, "description") \/ Trim(formData.description) = <<>>
  THEN "Description is required"
  ELSE IF Len(formData.title) > 100
  THEN "Title must be less than 100 characters"
  ELSE IF Len(formData.description) > 500
  THEN "Description must be less than 500 characters"
  ELSE ""

-----------------------------------------------------------------------------
(* State *)

NoQuery == "-"

\* The last request served: the operation, the :id parameter, the status
\* query parameter, the request body, the identity the gate attached to the
\* request (0 when it attached none), the response status and the
\* response's error message ("" when the response is not an error; every
\* response of status 400 or more is { error: message }), and whether a
\* store call of the handler threw while the request was served.
Served(op, hdr, id, query, body, r) ==
  [op |-> op, id |-> id, query |-> query, body |-> body,
   user |-> IF op # "login" /\ Auth(hdr, now).next THEN Auth(hdr, now).user ELSE 0,
   status |-> r.status,
   error |-> IF r.status >= 400 THEN r.body.error ELSE "",
   fault |-> FALSE]

Start ==
  [op |-> "start", id |-> BadId, query |-> NoQuery, body |-> <<>>, user |-> 0,
   status |-> 0, error |-> "", fault |-> FALSE]

\* Emails and passwords of the requests
AnnEmail == <<"a", "@", "x", ".", "c", "o">>
BobEmail == <<"b", "@", "x", ".", "c", "o">>
CatEmail == <<"c", "@", "x", ".", "c", "o">>
AnnPassword == <<"A", "b", "c", "d", "1", "2", "3", "!">>
BobPassword == <<"W", "x", "y", "z", "5", "6", "7", "?">>

\* Two registered identities, as registration stores them
Ann == [id |-> 1, firstName |-> <<"A", "n", "n">>, lastName |-> <<"L", "e", "e">>,
        email |-> AnnEmail, password |-> BcryptHash(AnnPassword)]
Bob == [id |-> 2, firstName |-> <<"B", "o", "b">>, lastName |-> <<"R", "a", "y">>,
        email |-> BobEmail, password |-> BcryptHash(BobPassword)]

\* The client before any page is used: the store as configureStore makes
\* it, nothing in localStorage, the signup page with an empty form that
\* has announced nothing, shows no error and has posted nothing
NoSession == [previous |-> 0, since |-> 1, fetched |-> FALSE]

\* The Signup page as it is first shown: no errors, nothing posted; with
\* the number of times it has announced success and the statuses of the
\* answers it has got so far (for the properties only)
SignupForm(alerts, answers) ==
  [errors |-> <<>>, posted |-> <<>>, alerts |-> alerts, answers |-> answers]

InitClient ==
  /\ slice = initialState
  /\ thunks = {}
  /\ nextRequestId = 1
  /\ storage = NoToken
  /\ page = "/signup"
  /\ session = NoSession
  /\ signup = SignupForm(0, <<>>)

\* The service with two registered identities, before any login
InitExpiry ==
  /\ users = {Ann, Bob}
  /\ regs = {}
  /\ tasks = {}
  /\ nextTaskId = 1
  /\ creator = <<>>
  /\ tokens = {}
  /\ now = 0
  /\ last = Start
  /\ nullPassesEnum = TRUE
  /\ InitClient

\* The same, ExpiresIn days after a login of the first identity
InitGate ==
  /\ users = {Ann, Bob}
  /\ regs = {}
  /\ tasks = {}
  /\ nextTaskId = 1
  /\ creator = <<>>
  /\ tokens = {JwtSign(Ann.id, JwtSecret, 0)}
  /\ now = ExpiresIn
  /\ last = Start
  /\ nullPassesEnum = TRUE
  /\ InitClient

\* The same, after both identities have logged in
InitTask ==
  /\ users = {Ann, Bob}
  /\ regs = {}
  /\ tasks = {}
  /\ nextTaskId = 1
  /\ creator = <<>>
  /\ tokens = {JwtSign(u, JwtSecret, 0) : u \in UserIds}
  /\ now = 0
  /\ last = Start
  /\ nullPassesEnum = TRUE
  /\ InitClient

\* The same, with either treatment of null by the enum validator
InitStatus ==
  /\ users = {Ann, Bob}
  /\ regs = {}
  /\ tasks = {}
  /\ nextTaskId = 1
  /\ creator = <<>>
  /\ tokens = {JwtSign(u, JwtSecret, 0) : u \in UserIds}
  /\ now = 0
  /\ last = Start
  /\ nullPassesEnum \in BOOLEAN
  /\ InitClient

\* The first identity has logged in on the client: the Login page is about
\* to navigate to the Main page
InitMain ==
  /\ users = {Ann, Bob}
  /\ regs = {}
  /\ tasks = {}
  /\ nextTaskId = 1
  /\ creator = <<>>
  /\ tokens = {JwtSign(Ann.id, JwtSecret, 0)}
  /\ now = 0
  /\ last = Start
  /\ nullPassesEnum = TRUE
  /\ slice = initialState
  /\ thunks = {}
  /\ nextRequestId = 1
  /\ storage = JwtSign(Ann.id, JwtSecret, 0)
  /\ page = "/login"
  /\ session = NoSession
  /\ signup = SignupForm(0, <<>>)

\* The service on an empty Identity Store
InitRegister ==
  /\ users = {}
  /\ regs = {}
  /\ tasks = {}
  /\ nextTaskId = 1
  /\ creator = <<>>
  /\ tokens = {}
  /\ now = 0
  /\ last = Start
  /\ nullPassesEnum = TRUE
  /\ InitClient

-----------------------------------------------------------------------------
(* Requests *)

\* A token for identity u signed with a key that is not the server's
Forged(u, t) == JwtSign(u, "not the secret", t)

\* Headers carrying an issued token
IssuedHeaders == {Bearer(tok) : tok \in tokens}

HeadersOf(u) == {hdr \in IssuedHeaders : hdr.rest.id = u}

\* Every kind of header: none, another scheme (or another spelling of
\* Bearer) around an issued token, an issued token (which may have
\* expired), a forged token
AnyHeaders ==
  {NoHeader, Header("Bearer", NoToken)}
  \cup {Header(prefix, tok) : prefix \in {"Token ", "bearer "}, tok \in tokens}
  \cup IssuedHeaders \cup {Bearer(Forged(u, now)) : u \in UserIds}

IdParams(cap) == {BadId} \cup (1..cap)

CreateBodies ==
  { [title |-> <<"a">>, description |-> <<"d">>],
    [title |-> <<" ", "a", " ">>, description |-> <<" ", "d">>],
    [title |-> <<"a">>, description |-> <<"d">>, status |-> "completed"],
    [title |-> <<"a">>],
    [title |-> <<>>, description |-> <<"d">>],
    [title |-> <<" ">>, description |-> <<"d">>] }

UpdateBodies ==
  { [status |-> "completed"],
    [status |-> "bogus"],
    [status |-> ""],
    [title |-> <<" ">>],
    <<>> }
  \cup {[userId |-> u] : u \in UserIds}

ListQueries ==
  {<<>>, [status |-> "bogus"]}
  \cup {[status |-> s] : s \in StatusEnum}

QueryOf(query) == IF Has(query, "status") THEN query.status ELSE NoQuery

ProfileBodies ==
  { [firstName |-> <<"A", "l">>, lastName |-> <<"L", "i">>],
    [firstName |-> <<"A", "l">>, lastName |-> <<"L", "i">>, email |-> CatEmail, id |-> 2],
    [firstName |-> <<"A">>, lastName |-> <<"L", "i">>],
    [lastName |-> <<"L", "i">>] }

\* Bodies of a profile Update: those above, one that names the email and
\* the password of another identity, one whose names are padded with white
\* space, one whose first name is a single letter after a space
ProfileEditBodies ==
  ProfileBodies \cup
  { [firstName |-> <<"B", "o">>, lastName |-> <<"R", "a">>,
     email |-> BobEmail, password |-> BcryptHash(BobPassword)],
    [firstName |-> <<" ", "A", "l", " ">>, lastName |-> <<"L", "i", " ">>],
    [firstName |-> <<" ", "A">>, lastName |-> <<"L", "i">>] }

LoginBodies ==
  { [email |-> AnnEmail, password |-> AnnPassword],
    [email |-> BobEmail, password |-> BobPassword],
    [email |-> AnnEmail, password |-> BobPassword],
    [email |-> CatEmail, password |-> AnnPassword] }

\* The email of Ann as a client may type it
AnnEmailUpper == <<"A", "@", "X", ".", "c", "o">>

AnnBody ==
  [firstName |-> <<"A", "n", "n">>, lastName |-> <<"L", "e", "e">>,
   email |-> AnnEmail, password |-> AnnPassword]

\* Registration requests: valid ones (two of them with the same email in a
\* different case), one that validation passes and the schema does not,
\* and one for each kind of validation error
RegisterBodies ==
  { AnnBody,
    [AnnBody EXCEPT !.firstName = <<"A", "l">>, !.email = AnnEmailUpper,
                    !.password = BobPassword],
    [AnnBody EXCEPT !.firstName = <<"B", "o", "b">>, !.email = BobEmail],
    [AnnBody EXCEPT !.firstName = <<" ", "a">>, !.email = CatEmail],
    [AnnBody EXCEPT !.email = AnnEmailUpper, !.password = <<"a", "b", "c">>],
    [AnnBody EXCEPT !.firstName = <<"A">>, !.email = <<"a", "x">>],
    [AnnBody EXCEPT !.lastName = [i \in 1..(MaxNameLength + 1) |-> "e"]],
    [AnnBody EXCEPT !.email = <<"a", "@", "x">>],
    [AnnBody EXCEPT !.password = <<"A", "b", "c", "d", "1", "2", "3", "4">>],
    [f \in {"lastName", "email", "password"} |-> AnnBody[f]],
    [f \in {"firstName", "lastName", "email"} |->
       IF f = "firstName" THEN <<"A">> ELSE AnnBody[f]],
    [f \in {"lastName", "email"} |-> IF f = "lastName" THEN <<"L">> ELSE AnnEmail],
    [f \in {"firstName", "lastName", "email", "password", "role"} |->
       IF f = "role" THEN <<"x">> ELSE AnnBody[f]] }

\* Logins of SpecRegister: the email as registered and in another case, a
\* password that is Ann's or is not, an email nobody registers, no password
RegisterLoginBodies ==
  { [email |-> AnnEmail, password |-> AnnPassword],
    [email |-> AnnEmailUpper, password |-> BobPassword],
    [email |-> BobEmail, password |-> BobPassword],
    [email |-> <<"d", "@", "x", ".", "c", "o">>, password |-> AnnPassword],
    [email |-> AnnEmail] }

\* The requests that fill the store in SpecList
ListCreateBodies == {[title |-> <<"a">>, description |-> <<"d">>]}
ListUpdateBodies == {[status |-> "completed"], [userId |-> 2]}

\* Partial updates: each of title, description and status alone or with
\* another, padded with white space, with a status outside the enumeration,
\* with an empty title, and the empty update
PatchBodies ==
  { [title |-> <<" ", "b", " ">>],
    [description |-> <<"e">>, status |-> "in-progress"],
    [status |-> "completed"],
    [title |-> <<"b">>, description |-> <<"e">>, status |-> "bogus"],
    [title |-> <<"b">>, status |-> ""],
    [title |-> <<>>, status |-> "completed"],
    <<>> }

\* A text of n characters, none of them white space
Text(n) == [i \in 1..n |-> "a"]

\* Creates at the length limits: a title of 100 and of 101 characters, a
\* description of 500 and of 501, and texts that are over the limit only
\* by the white space around them
BoundaryBodies ==
  { [title |-> Text(MaxTitleLength), description |-> Text(MaxDescriptionLength)],
    [title |-> Text(MaxTitleLength + 1), description |-> <<"d">>],
    [title |-> Text(MaxTitleLength) \o <<" ">>, description |-> <<"d">>],
    [title |-> <<"a">>, description |-> Text(MaxDescriptionLength)],
    [title |-> <<"a">>, description |-> Text(MaxDescriptionLength + 1)],
    [title |-> <<"a">>, description |-> <<" ">> \o Text(MaxDescriptionLength)] }

\* Creates and Updates that try to store a Task outside the schema: a null,
\* empty or unknown status, an empty, blank or overlong title or
\* description
SchemaCreateBodies ==
  { [title |-> <<"a">>, description |-> <<"d">>],
    [title |-> <<"a">>, description |-> <<"d">>, status |-> Null],
    [title |-> <<"a">>, description |-> <<"d">>, status |-> ""],
    [title |-> <<" ">>, description |-> <<"d">>],
    [title |-> Text(MaxTitleLength + 1), description |-> <<"d">>],
    [title |-> <<"a">>, description |-> Text(MaxDescriptionLength + 1)] }

SchemaUpdateBodies ==
  { [status |-> Null],
    [status |-> ""],
    [status |-> "bogus"],
    [status |-> "completed"],
    [title |-> <<"b">>, status |-> Null],
    [title |-> <<>>],
    [title |-> <<" ">>],
    [title |-> Text(MaxTitleLength + 1)],
    [description |-> <<>>],
    [description |-> Text(MaxDescriptionLength + 1)],
    [title |-> Text(MaxTitleLength), description |-> Text(MaxDescriptionLength)] }

\* The requests during which the store fails in SpecFault
FaultBodies ==
  { [title |-> <<"a">>, description |-> <<"d">>],
    [title |-> <<"a">>, description |-> <<"d">>, status |-> "completed"],
    [status |-> "bogus"] }
FaultUserBodies ==
  { AnnBody,
    [firstName |-> <<"A", "l">>, lastName |-> <<"L", "i">>],
    [email |-> AnnEmail, password |-> AnnPassword] }

\* The requests sent through the gate in SpecGate and SpecExpiry
GateCreateBodies == {[title |-> <<"a">>, description |-> <<"d">>, userId |-> 2]}
GateUpdateBodies == {[status |-> "completed"]}
GateQueries == {<<>>}
GateProfileBodies == {[firstName |-> <<"A", "l">>, lastName |-> <<"L", "i">>, id |-> 2]}

-----------------------------------------------------------------------------
(* Actions: one per route *)

\* POST /api/tasks
Create(hdr, body, cap) ==
  /\ nextTaskId <= cap
  /\ LET r == PostTask(tasks, hdr, body, nextTaskId, now)
     IN /\ tasks' = r.tasks
        /\ nextTaskId' = IF r.status = 201 THEN nextTaskId + 1 ELSE nextTaskId
        /\ creator' = IF r.status = 201 THEN Append(creator, r.body.userId) ELSE creator
        /\ last' = Served("create", hdr, BadId, NoQuery, body, r)
  /\ UNCHANGED <<users, regs, tokens, now, nullPassesEnum, client>>

\* GET /api/tasks
List(hdr, query) ==
  /\ \E r \in GetTasks(tasks, hdr, query, now) :
       /\ tasks' = r.tasks
       /\ last' = Served("list", hdr, BadId, QueryOf(query), <<>>, r)
  /\ UNCHANGED <<users, regs, nextTaskId, creator, tokens, now, nullPassesEnum, client>>

\* GET /api/tasks/:id
Get(hdr, id) ==
  /\ LET r == GetTaskById(tasks, hdr, id, now)
     IN /\ tasks' = r.tasks
        /\ last' = Served("get", hdr, id, NoQuery, <<>>, r)
  /\ UNCHANGED <<users, regs, nextTaskId, creator, tokens, now, nullPassesEnum, client>>

\* PUT /api/tasks/:id
Update(hdr, id, body) ==
  /\ LET r == PutTask(tasks, hdr, id, body, now)
     IN /\ tasks' = r.tasks
        /\ last' = Served("update", hdr, id, NoQuery, body, r)
  /\ UNCHANGED <<users, regs, nextTaskId, creator, tokens, now, nullPassesEnum, client>>

\* DELETE /api/tasks/:id
Delete(hdr, id) ==
  /\ LET r == DeleteTaskById(tasks, hdr, id, now)
     IN /\ tasks' = r.tasks
        /\ last' = Served("delete", hdr, id, NoQuery, <<>>, r)
  /\ UNCHANGED <<users, regs, nextTaskId, creator, tokens, now, nullPassesEnum, client>>

\* GET /api/users/profile
Profile(hdr) ==
  /\ LET r == GetUserProfile(users, hdr, now)
     IN /\ users' = r.users
        /\ last' = Served("profile", hdr, BadId, NoQuery, <<>>, r)
  /\ UNCHANGED <<regs, tasks, nextTaskId, creator, tokens, now, nullPassesEnum, client>>

\* PUT /api/users/profile
EditProfile(hdr, body) ==
  /\ LET r == PutUserProfile(users, hdr, body, now)
     IN /\ users' = r.users
        /\ last' = Served("editProfile", hdr, BadId, NoQuery, body, r)
  /\ UNCHANGED <<regs, tasks, nextTaskId, creator, tokens, now, nullPassesEnum, client>>

\* POST /api/auth: the client keeps the token it is given
SignIn(body, until) ==
  /\ now <= until
  /\ LET r == Login(users, body, now)
     IN /\ tokens' = IF r.status = 200 THEN tokens \cup {r.token} ELSE tokens
        /\ last' = Served("login", NoHeader, BadId, NoQuery, body, r)
  /\ UNCHANGED <<users, regs, tasks, nextTaskId, creator, now, nullPassesEnum, client>>

\* The identifier of a new document: one that no document has
NextUserId ==
  LET ids == {u.id : u \in users} \cup {g.user.id : g \in regs}
  IN CHOOSE n \in 1..(Cardinality(ids) + 1) :
       n \notin ids /\ \A i \in 1..(n - 1) : i \in ids

\* POST /api/users up to its first await that leaves the handler waiting
\* for the store with the document to save: a request that validation or
\* the lookup by email rejects is answered at once, any other stays in
\* flight with the document built from it
RegisterBegin(body, cap) ==
  /\ Cardinality(users) + Cardinality(regs) < cap
  /\ IF RegisterRejects(users, body)
     THEN /\ last' = Served("register", NoHeader, BadId, NoQuery, body, Rejection(users, body))
          /\ regs' = regs
     ELSE /\ regs' = regs \cup {[body |-> body, user |-> NewUser(NextUserId, body)]}
          /\ last' = last
  /\ UNCHANGED <<users, tasks, nextTaskId, creator, tokens, now, nullPassesEnum, client>>

\* POST /api/users from user.save() on, for a request in flight
RegisterEnd(g) ==
  /\ g \in regs
  /\ LET r == SaveUser(users, g.user)
     IN /\ users' = r.users
        /\ last' = Served("register", NoHeader, BadId, NoQuery, g.body, r)
  /\ regs' = regs \ {g}
  /\ UNCHANGED <<tasks, nextTaskId, creator, tokens, now, nullPassesEnum, client>>

\* A request to a Task route during which the store call of the handler
\* throws: the gate has let the request through, no check of the handler
\* has returned, and the catch block answers
TaskFault(op, hdr, id, body, detail) ==
  /\ Auth(hdr, now).next
  /\ ReachesTaskStore(op, id, body)
  /\ LET r == TaskCatch(op, tasks, detail)
     IN /\ tasks' = r.tasks
        /\ last' = [Served(op, hdr, id, NoQuery, body, r) EXCEPT !.fault = TRUE]
  /\ UNCHANGED <<users, regs, nextTaskId, creator, tokens, now, nullPassesEnum, client>>

\* The same for registration, login and the profile routes
UserFault(op, hdr, body, detail) ==
  /\ op \in {"profile", "editProfile"} => Auth(hdr, now).next
  /\ ReachesUserStore(op, body)
  /\ LET r == UserCatch(op, users, detail)
     IN /\ users' = r.users
        /\ last' = [Served(op, hdr, BadId, NoQuery, body, r) EXCEPT !.fault = TRUE]
  /\ UNCHANGED <<regs, tasks, nextTaskId, creator, tokens, now, nullPassesEnum, client>>

\* A day passes
Tick(limit) ==
  /\ now < limit
  /\ now' = now + 1
  /\ UNCHANGED <<users, regs, tasks, nextTaskId, creator, tokens, last, nullPassesEnum, client>>

(* Actions of the client *)

\* dispatch(thunk(arg)): the pending action is reduced and the request is
\* sent with the token of localStorage
Dispatch(type, arg, cap) ==
  /\ nextRequestId <= cap
  /\ slice' = taskReducer(slice, Action(type, "pending", <<>>))
  /\ thunks' = thunks \cup {Thunk(nextRequestId, type, arg, storage)}
  /\ nextRequestId' = nextRequestId + 1
  /\ UNCHANGED <<server, storage, session, signup>>

\* Navigation to the Main page (it is behind PrivateRoute): its useEffect
\* dispatches fetchTasks
Mount(cap) ==
  /\ storage # NoToken /\ page # "/home"
  /\ page' = "/home"
  /\ Dispatch("fetchTasks", <<>>, cap)

\* handleLogout of the Main page: the token is removed and the Login page
\* is shown; the store is not touched and the requests in flight go on
handleLogout ==
  /\ page = "/home"
  /\ storage' = NoToken
  /\ page' = "/login"
  /\ session' = [previous |-> storage.id, since |-> 0, fetched |-> FALSE]
  /\ UNCHANGED <<server, slice, thunks, nextRequestId, signup>>

\* handleSubmit of the Login page: on success the token is kept in
\* localStorage (the page then navigates to the Main page), on failure the
\* page shows the error
handleLogin(data) ==
  /\ page = "/login" /\ storage = NoToken
  /\ LET r == Login(users, data, now)
     IN IF r.status = 200
        THEN /\ tokens' = tokens \cup {r.token}
             /\ storage' = r.token
             /\ session' = [session EXCEPT !.since = nextRequestId, !.fetched = FALSE]
        ELSE UNCHANGED <<tokens, storage, session>>
  /\ UNCHANGED <<users, regs, tasks, nextTaskId, creator, now, last, nullPassesEnum>>
  /\ UNCHANGED <<slice, thunks, nextRequestId, page, signup>>

\* handleCreate: the form is validated, addTask is dispatched with it
handleCreate(data, cap, taskCap) ==
  /\ page = "/home"
  /\ nextTaskId + Cardinality({th \in thunks : th.type = "addTask" /\ th.response = NoResponse})
       <= taskCap
  /\ IF validateForm(data) = ""
     THEN Dispatch("addTask", data, cap) /\ UNCHANGED page
     ELSE UNCHANGED vars

\* handleEdit and handleUpdate: a Task of the list is selected, edited in
\* the form, validated and sent whole
handleUpdate(selectedTask, cap) ==
  /\ page = "/home"
  /\ IF validateForm(selectedTask) = ""
     THEN /\ Dispatch("updateTask", [id |-> selectedTask.id, task |-> selectedTask], cap)
          /\ UNCHANGED page
     ELSE UNCHANGED vars

\* handleDelete, confirmed
handleDelete(taskId, cap) ==
  /\ page = "/home"
  /\ Dispatch("deleteTask", taskId, cap)
  /\ UNCHANGED page

\* The server answers the request of a thunk
Respond(thunk) ==
  /\ thunk \in thunks /\ thunk.response = NoResponse
  /\ \E r \in Route(thunk, tasks, nextTaskId, now) :
       /\ tasks' = r.tasks
       /\ nextTaskId' = IF r.status = 201 THEN nextTaskId + 1 ELSE nextTaskId
       /\ creator' = IF r.status = 201 THEN Append(creator, r.body.userId) ELSE creator
       /\ thunks' = (thunks \ {thunk})
            \cup {[thunk EXCEPT !.response = [status |-> r.status, data |-> r.body]]}
  /\ UNCHANGED <<users, regs, tokens, now, last, nullPassesEnum>>
  /\ UNCHANGED <<slice, nextRequestId, storage, page, session, signup>>

\* handleSubmit of the Signup page, up to the request
handleSignup(data, cap) ==
  /\ page = "/signup" /\ signup.posted = <<>>
  /\ signup.alerts < cap
  /\ signup' = SignupSubmit(signup, data)
  /\ UNCHANGED <<server, slice, thunks, nextRequestId, storage, page, session>>

\* The server answers the registration and the page goes on
SignupAnswer ==
  /\ signup.posted # <<>>
  /\ LET r == Register(users, signup.posted, NextUserId)
         next == SignupSettle(signup, r)
     IN /\ users' = r.users
        /\ page' = next.page
        /\ signup' = next.form
  /\ UNCHANGED <<regs, tasks, nextTaskId, creator, tokens, now, last, nullPassesEnum>>
  /\ UNCHANGED <<slice, thunks, nextRequestId, storage, session>>

\* The link of the Login page to the Signup page: the application is
\* loaded anew
ShowSignup ==
  /\ page = "/login"
  /\ page' = "/signup"
  /\ slice' = initialState
  /\ thunks' = {}
  /\ signup' = SignupForm(signup.alerts, signup.answers)
  /\ UNCHANGED <<server, nextRequestId, storage, session>>

\* The store call of the route throws while the server serves the request
\* of a thunk: the catch block answers
RespondFault(thunk, detail) ==
  /\ thunk \in thunks /\ thunk.response = NoResponse
  /\ Auth(thunk.hdr, now).next
  /\ ReachesTaskStore(RouteOp(thunk.type), BadId + 1, <<>>)
  /\ LET r == TaskCatch(RouteOp(thunk.type), tasks, detail)
     IN /\ tasks' = r.tasks
        /\ thunks' = (thunks \ {thunk})
             \cup {[thunk EXCEPT !.response = [status |-> r.status, data |-> r.body]]}
  /\ UNCHANGED <<users, regs, nextTaskId, creator, tokens, now, last, nullPassesEnum>>
  /\ UNCHANGED <<slice, nextRequestId, storage, page, session, signup>>

\* The response reaches the thunk: the fulfilled or rejected action is
\* reduced.  A fetchTasks that was dispatched after the last login and is
\* fulfilled is remembered.
Settle(thunk) ==
  /\ thunk \in thunks /\ thunk.response # NoResponse
  /\ slice' = taskReducer(slice, Settled(thunk))
  /\ thunks' = thunks \ {thunk}
  /\ session' =
       IF /\ thunk.type = "fetchTasks" /\ thunk.response.status < 400
          /\ session.since # 0 /\ thunk.requestId >= session.since
       THEN [session EXCEPT !.fetched = TRUE]
       ELSE session
  /\ UNCHANGED <<server, nextRequestId, storage, page, signup>>

\* What the user may put into the edit form of a Task
Edits(task) ==
  { [task EXCEPT !.status = "completed"],
    [task EXCEPT !.title = <<"b">>] }

\* What the user may put into the Signup form: two valid identities, a
\* password the form accepts and the server does not, no password, a
\* short password
SignupData ==
  { AnnBody,
    [AnnBody EXCEPT !.firstName = <<"B", "o", "b">>, !.email = BobEmail],
    [AnnBody EXCEPT !.email = CatEmail,
                    !.password = <<"A", "b", "c", "d", "1", "2", "3", "4">>],
    [AnnBody EXCEPT !.password = <<>>],
    [AnnBody EXCEPT !.firstName = <<>>, !.password = <<"a", "b", "c">>] }

SessionCreateBodies == {[title |-> <<"a">>, description |-> <<"d">>, status |-> "pending"]}

ClientCreateBodies ==
  { [title |-> <<"a">>, description |-> <<"d">>, status |-> "pending"],
    [title |-> <<" ">>, description |-> <<"d">>, status |-> "pending"] }

-----------------------------------------------------------------------------
(* Specifications *)

\* The Task Service used by two logged-in identities
NextTask ==
  \/ \E hdr \in IssuedHeaders, body \in CreateBodies : Create(hdr, body, MaxTasks)
  \/ \E hdr \in IssuedHeaders, query \in ListQueries : List(hdr, query)
  \/ \E hdr \in IssuedHeaders, id \in IdParams(MaxTasks) : Get(hdr, id)
  \/ \E hdr \in IssuedHeaders, id \in IdParams(MaxTasks), body \in UpdateBodies :
       Update(hdr, id, body)
  \/ \E hdr \in IssuedHeaders, id \in IdParams(MaxTasks) : Delete(hdr, id)
  \/ Tick(MaxTaskTime)

SpecTask == InitTask /\ [][NextTask]_vars

\* The listing of a store of several Tasks of different age, status and
\* owner
NextList ==
  \/ \E hdr \in IssuedHeaders, body \in ListCreateBodies : Create(hdr, body, MaxListTasks)
  \/ \E hdr \in IssuedHeaders, query \in ListQueries : List(hdr, query)
  \/ \E hdr \in IssuedHeaders, id \in 1..MaxListTasks, body \in ListUpdateBodies :
       Update(hdr, id, body)
  \/ \E hdr \in IssuedHeaders, id \in 1..MaxListTasks : Delete(hdr, id)
  \/ Tick(MaxTaskTime)

SpecList == InitTask /\ [][NextList]_vars

\* The Access Gate in front of every protected route, given every kind of
\* header
NextGate ==
  \/ \E body \in LoginBodies : SignIn(body, MaxTime)
  \/ \E hdr \in AnyHeaders, body \in GateCreateBodies : Create(hdr, body, MaxTasks)
  \/ \E hdr \in AnyHeaders, query \in GateQueries : List(hdr, query)
  \/ \E hdr \in AnyHeaders, id \in IdParams(MaxTasks) : Get(hdr, id)
  \/ \E hdr \in AnyHeaders, id \in IdParams(MaxTasks), body \in GateUpdateBodies :
       Update(hdr, id, body)
  \/ \E hdr \in AnyHeaders, id \in IdParams(MaxTasks) : Delete(hdr, id)
  \/ \E hdr \in AnyHeaders : Profile(hdr)
  \/ \E hdr \in AnyHeaders, body \in GateProfileBodies : EditProfile(hdr, body)

SpecGate == InitGate /\ [][NextGate]_vars

\* The profile routes, given every kind of header and body
NextProfile ==
  \/ \E hdr \in AnyHeaders : Profile(hdr)
  \/ \E hdr \in AnyHeaders, body \in ProfileEditBodies : EditProfile(hdr, body)
  \/ Tick(MaxTaskTime)

SpecProfile == InitTask /\ [][NextProfile]_vars

\* Creates and Updates with bodies outside the schema
NextStatus ==
  \/ \E hdr \in IssuedHeaders, body \in SchemaCreateBodies : Create(hdr, body, MaxTasks)
  \/ \E hdr \in IssuedHeaders, id \in IdParams(MaxTasks), body \in SchemaUpdateBodies :
       Update(hdr, id, body)

SpecStatus == InitStatus /\ [][NextStatus]_vars

\* The Main page used by one logged-in identity: every request succeeds
NextClient ==
  \/ Mount(MaxRequests)
  \/ \E data \in ClientCreateBodies : handleCreate(data, MaxRequests, MaxListTasks)
  \/ \E i \in DOMAIN slice.items : \E selectedTask \in Edits(slice.items[i]) :
       handleUpdate(selectedTask, MaxRequests)
  \/ \E i \in DOMAIN slice.items : handleDelete(slice.items[i].id, MaxRequests)
  \/ \E thunk \in thunks : Respond(thunk)
  \/ \E thunk \in thunks : Settle(thunk)
  \/ Tick(MaxTaskTime)

SpecClient == InitMain /\ [][NextClient]_vars

\* The client used by two identities in turn, over a store that may fail
\* while it answers a fetchTasks
NextSession ==
  \/ Mount(MaxRequests)
  \/ \E data \in SessionCreateBodies : handleCreate(data, MaxRequests, MaxTasks)
  \/ handleLogout
  \/ \E data \in LoginBodies : handleLogin(data)
  \/ \E thunk \in thunks : Respond(thunk)
  \/ \E thunk \in {th \in thunks : th.type = "fetchTasks"}, detail \in StoreFaults :
       RespondFault(thunk, detail)
  \/ \E thunk \in thunks : Settle(thunk)

SpecSession == InitMain /\ [][NextSession]_vars

\* The Signup page over a store that starts empty
NextSignup ==
  \/ \E data \in SignupData : handleSignup(data, MaxSignups)
  \/ SignupAnswer
  \/ ShowSignup

SpecSignup == InitRegister /\ [][NextSignup]_vars

\* The ageing of issued tokens: every request carries a token that login
\* issued
NextExpiry ==
  \/ \E body \in LoginBodies : SignIn(body, MaxLoginTime)
  \/ \E hdr \in IssuedHeaders, body \in GateCreateBodies : Create(hdr, body, MaxTasks)
  \/ \E hdr \in IssuedHeaders, query \in GateQueries : List(hdr, query)
  \/ \E hdr \in IssuedHeaders, id \in 1..MaxTasks : Get(hdr, id)
  \/ \E hdr \in IssuedHeaders, id \in 1..MaxTasks : Delete(hdr, id)
  \/ \E hdr \in IssuedHeaders : Profile(hdr)
  \/ Tick(MaxTime)

SpecExpiry == InitExpiry /\ [][NextExpiry]_vars

\* Partial updates, by two identities, of the Tasks of the first
NextPatch ==
  \/ \E hdr \in HeadersOf(Ann.id), body \in ListCreateBodies :
       Create(hdr, body, MaxListTasks)
  \/ \E hdr \in IssuedHeaders, id \in 1..MaxListTasks, body \in PatchBodies :
       Update(hdr, id, body)

SpecPatch == InitTask /\ [][NextPatch]_vars

\* Creates at the length limits of title and description
NextBoundary ==
  \/ \E hdr \in IssuedHeaders, body \in BoundaryBodies : Create(hdr, body, MaxListTasks)
  \/ \E hdr \in IssuedHeaders, id \in 1..MaxListTasks : Get(hdr, id)
  \/ \E hdr \in IssuedHeaders, id \in 1..MaxListTasks : Delete(hdr, id)

SpecBoundary == InitTask /\ [][NextBoundary]_vars

\* The service over a store that may fail during any request
NextFault ==
  \/ \E hdr \in IssuedHeaders, body \in ListCreateBodies : Create(hdr, body, MaxTasks)
  \/ \E hdr \in IssuedHeaders, id \in IdParams(MaxTasks) : Delete(hdr, id)
  \/ \E op \in TaskOps, hdr \in IssuedHeaders, id \in IdParams(MaxTasks),
        body \in FaultBodies, detail \in StoreFaults :
       TaskFault(op, hdr, id, body, detail)
  \/ \E op \in UserOps, hdr \in IssuedHeaders, body \in FaultUserBodies,
        detail \in StoreFaults :
       UserFault(op, hdr, body, detail)

SpecFault == InitTask /\ [][NextFault]_vars

\* Registration and login on a store that starts empty; registrations
\* overlap
NextRegister ==
  \/ \E body \in RegisterBodies : RegisterBegin(body, MaxUsers)
  \/ \E g \in regs : RegisterEnd(g)
  \/ \E body \in RegisterLoginBodies : SignIn(body, MaxLoginTime)
  \/ \E hdr \in IssuedHeaders : Profile(hdr)

SpecRegister == InitRegister /\ [][NextRegister]_vars

TypeOK ==
  /\ nextTaskId \in 1..(MaxTasks + MaxListTasks)
  /\ now \in 0..MaxTime
  /\ \A d \in tasks : d.id \in 1..(nextTaskId - 1) /\ d.status \in StatusEnum \cup {Null}

-----------------------------------------------------------------------------
(* Properties of the Task Service (SpecTask) *)

\* The requests of an identity holding a valid Session Token: the token was
\* issued by login, and less than ExpiresIn days ago.
ValidTokens == {tok \in tokens : tok.sig = JwtSecret /\ now - tok.iat < ExpiresIn}
TokensOf(u) == {tok \in ValidTokens : tok.id = u}

Range(s) == {s[i] : i \in DOMAIN s}
OwnedBy(u) == {d \in tasks : d.userId = u}
IdsInUse == {d.id : d \in tasks}

\* C1: for a Task created by identity A and any other identity B, Get-by-id
\* of that Task with a valid token of B returns 404 and never the Task, in
\* every reachable state.
C1_GetByOtherIdentityIs404 ==
  \A d \in tasks : \A b \in UserIds \ {creator[d.id]} : \A tok \in TokensOf(b) :
    LET r == GetTaskById(tasks, Bearer(tok), d.id, now)
    IN r.status = 404 /\ r.body # d

Spaces(s) == \A i \in DOMAIN s : s[i] = " "
TextRejected(body, f, maxLength) ==
  Has(body, f) /\ (Spaces(body[f]) \/ Len(Trim(body[f])) > maxLength)
BodyRejected(body) ==
  \/ Has(body, "status") /\ body.status \notin {"pending", "in-progress", "completed"}
  \/ TextRejected(body, "title", 100)
  \/ TextRejected(body, "description", 500)

NewestFirst(s, S) ==
  /\ Range(s) = S
  /\ Len(s) = Cardinality(S)
  /\ \A i \in 1..(Len(s) - 1) : s[i].createdAt >= s[i + 1].createdAt

\* C3: List without a filter returns exactly the Tasks the caller currently
\* owns, newest first.
C3_ListReturnsOwnTasksNewestFirst ==
  \A u \in UserIds : \A tok \in TokensOf(u) :
    LET rs == GetTasks(tasks, Bearer(tok), <<>>, now)
    IN /\ rs # {}
       /\ \A r \in rs : r.status = 200 /\ NewestFirst(r.body, OwnedBy(u))

\* An unfiltered List has been answered for a caller owning two Tasks of
\* different age.
C3_Witness ==
  /\ last.op = "list" /\ last.query = NoQuery /\ last.status = 200
  /\ \E d, e \in OwnedBy(last.user) : d.createdAt < e.createdAt

\* C4: List with status filter s of the enumeration returns exactly the
\* caller's own Tasks whose status is s, newest first.
C4_ListFilterReturnsOwnTasksOfStatus ==
  \A u \in UserIds : \A tok \in TokensOf(u) :
    \A s \in {"pending", "in-progress", "completed"} :
      LET rs == GetTasks(tasks, Bearer(tok), [status |-> s], now)
      IN /\ rs # {}
         /\ \A r \in rs :
              /\ r.status = 200
              /\ NewestFirst(r.body, {d \in OwnedBy(u) : d.status = s})

\* A List filtered by "completed" has been answered for a caller owning a
\* completed Task and a Task of another status.
C4_Witness ==
  /\ last.op = "list" /\ last.query = "completed" /\ last.status = 200
  /\ \E d, e \in OwnedBy(last.user) : d.status = "completed" /\ e.status # "completed"

\* t is s without its leading and trailing spaces
IsTrimOf(t, s) ==
  \E i \in 1..(Len(s) + 1), j \in 0..Len(s) :
    /\ t = SubSeq(s, i, j)
    /\ \A k \in 1..(i - 1) : s[k] = " "
    /\ \A k \in (j + 1)..Len(s) : s[k] = " "
    /\ t # <<>> => t[1] # " " /\ t[Len(t)] # " "

\* The Task that the Create just served has stored
Created == {d \in tasks : d.id = nextTaskId - 1}
CreateServed == last.op = "create" /\ last.status = 201

\* C5 as stated: after a successful Create with title T and description D
\* and no status, Get-by-id of the returned id by the same identity returns
\* title T, description D and status pending.
C5_RoundTripVerbatim ==
  (CreateServed /\ ~Has(last.body, "status")) =>
    \A tok \in TokensOf(last.user) :
      LET g == GetTaskById(tasks, Bearer(tok), nextTaskId - 1, now)
      IN /\ g.status = 200
         /\ g.body.title = last.body.title
         /\ g.body.description = last.body.description
         /\ g.body.status = "pending"

\* C5 (amended): after a successful Create with title T and description D
\* and no status, Get-by-id of the returned id by the same identity returns
\* T and D without their leading and trailing whitespace, and status
\* pending.
C5_RoundTripTrimmed ==
  (CreateServed /\ ~Has(last.body, "status")) =>
    \A tok \in TokensOf(last.user) :
      LET g == GetTaskById(tasks, Bearer(tok), nextTaskId - 1, now)
      IN /\ g.status = 200
         /\ IsTrimOf(g.body.title, last.body.title)
         /\ IsTrimOf(g.body.description, last.body.description)
         /\ g.body.status = "pending"

\* A Create without status, whose title and description carry surrounding
\* whitespace, has been answered 201 to an identity holding a valid token.
C5_Witness ==
  /\ CreateServed /\ ~Has(last.body, "status")
  /\ Head(last.body.title) = " " /\ Head(last.body.description) = " "
  /\ TokensOf(last.user) # {}

\* C6: a Create whose input carries a status s of the enumeration produces
\* a Task whose status is s; the default pending applies only when status
\* is omitted.
C6_CreateTakesStatus ==
  CreateServed =>
    \A d \in Created :
      d.status = IF Has(last.body, "status") THEN last.body.status ELSE "pending"

\* C7: deleting the same Task id twice with the owner's token: the first
\* Delete returns 200 and removes the Task, the second returns 404 and
\* changes nothing.
C7_DeleteTwice ==
  \A d \in tasks : \A tok \in TokensOf(d.userId) :
    LET first == DeleteTaskById(tasks, Bearer(tok), d.id, now)
        second == DeleteTaskById(first.tasks, Bearer(tok), d.id, now)
    IN /\ first.status = 200
       /\ first.tasks = tasks \ {d}
       /\ second.status = 404
       /\ second.tasks = first.tasks

\* A Delete of a Task id that was created and is no longer in the store has
\* been answered 404 to the identity that created it.
C7_Witness ==
  /\ last.op = "delete" /\ last.status = 404
  /\ last.id \in DOMAIN creator /\ creator[last.id] = last.user
  /\ last.id \notin IdsInUse

-----------------------------------------------------------------------------
(* Properties of the Access Gate (SpecGate, SpecExpiry) *)

\* P holds of every response that any of the seven protected routes can
\* give to a request carrying the header hdr
ForEveryRoute(hdr, P(_)) ==
  /\ \A body \in CreateBodies : P(PostTask(tasks, hdr, body, nextTaskId, now))
  /\ \A query \in ListQueries : \A r \in GetTasks(tasks, hdr, query, now) : P(r)
  /\ \A id \in IdParams(MaxTasks) : P(GetTaskById(tasks, hdr, id, now))
  /\ \A id \in IdParams(MaxTasks) : \A body \in UpdateBodies :
       P(PutTask(tasks, hdr, id, body, now))
  /\ \A id \in IdParams(MaxTasks) : P(DeleteTaskById(tasks, hdr, id, now))
  /\ P(GetUserProfile(users, hdr, now))
  /\ \A body \in ProfileBodies : P(PutUserProfile(users, hdr, body, now))

\* The response leaves the store of its route as it was
StoresUnchanged(r) == IF Has(r, "tasks") THEN r.tasks = tasks ELSE r.users = users

Protected == {"create", "list", "get", "update", "delete", "profile", "editProfile"}

\* C8: a request with no Authorization header, or a header not of the shape
\* 'Bearer <token>', is answered 401 'Authentication required'; a request
\* with a well-shaped header whose token fails signature or expiry
\* verification is answered 401 'Invalid or expired token'.
C8_TwoUnauthorizedOutcomes ==
  \A hdr \in AnyHeaders :
    /\ (~hdr.present \/ hdr.prefix # "Bearer ") =>
         ForEveryRoute(hdr, LAMBDA r :
           r.status = 401 /\ r.body = [error |-> "Authentication required"])
    /\ (hdr.present /\ hdr.prefix = "Bearer "
          /\ (hdr.rest.sig # JwtSecret \/ now >= hdr.rest.exp)) =>
         ForEveryRoute(hdr, LAMBDA r :
           r.status = 401 /\ r.body = [error |-> "Invalid or expired token"])

\* A protected request has been answered 401 'Invalid or expired token'
\* while another scheme's header would be answered 'Authentication
\* required'.
C8_Witness ==
  /\ last.op \in Protected
  /\ last.status = 401 /\ last.error = "Invalid or expired token"
  /\ \E tok \in tokens : now >= tok.exp

\* C9: a request that the gate rejects never reaches the handler (both
\* stores unchanged, nothing but the gate's error returned); a request that
\* is served carries a token that login issued and that has not expired,
\* and the handler acts for the identity in that token only: the Task it
\* creates, the Tasks it returns, replaces or removes and the Identity it
\* returns or changes are that identity's, whatever the body, query or path
\* say.
C9_GateBeforeEveryHandler ==
  \A hdr \in AnyHeaders :
    /\ ForEveryRoute(hdr, LAMBDA r :
         IF r.status = 401
         THEN /\ StoresUnchanged(r)
              /\ r.body \in {[error |-> "Authentication required"],
                             [error |-> "Invalid or expired token"]}
         ELSE hdr.present /\ hdr.prefix = "Bearer " /\ hdr.rest \in ValidTokens)
    /\ \A body \in CreateBodies :
         LET r == PostTask(tasks, hdr, body, nextTaskId, now)
         IN r.status = 201 => r.body.userId = hdr.rest.id /\ r.tasks = tasks \cup {r.body}
    /\ \A query \in ListQueries : \A r \in GetTasks(tasks, hdr, query, now) :
         r.status = 200 => \A d \in Range(r.body) : d.userId = hdr.rest.id
    /\ \A id \in IdParams(MaxTasks) :
         LET r == GetTaskById(tasks, hdr, id, now)
         IN r.status = 200 => r.body.userId = hdr.rest.id
    /\ \A id \in IdParams(MaxTasks) : \A body \in UpdateBodies :
         \A d \in tasks \ PutTask(tasks, hdr, id, body, now).tasks : d.userId = hdr.rest.id
    /\ \A id \in IdParams(MaxTasks) :
         \A d \in tasks \ DeleteTaskById(tasks, hdr, id, now).tasks : d.userId = hdr.rest.id
    /\ LET r == GetUserProfile(users, hdr, now)
       IN r.status = 200 => r.body.id = hdr.rest.id
    /\ \A body \in ProfileBodies :
         LET r == PutUserProfile(users, hdr, body, now)
         IN /\ r.status = 200 => r.body.id = hdr.rest.id
            /\ \A u \in users \ r.users : u.id = hdr.rest.id

\* A Delete of a Task that is in the store has been rejected by the gate.
C9_Witness ==
  /\ last.op = "delete" /\ last.status = 401
  /\ last.id \in IdsInUse

\* C10: a correctly signed token is accepted only while less than 7 days
\* have passed since it was issued: once 7 days have passed, every protected
\* request presenting it is answered 401.
C10_TokenRejectedAfterSevenDays ==
  \A tok \in tokens :
    (tok.sig = JwtSecret /\ now - tok.iat >= 7) =>
      ForEveryRoute(Bearer(tok), LAMBDA r : r.status = 401)

\* A protected request carrying a token that login issued more than 7 days
\* ago has been answered 401.
C10_Witness ==
  /\ last.op \in Protected
  /\ last.status = 401 /\ last.error = "Invalid or expired token"
  /\ \A tok \in tokens : now - tok.iat > 7

-----------------------------------------------------------------------------
(* Properties of registration and login (SpecRegister) *)

SameEmail(e1, e2) == ToLowerCase(e1) = ToLowerCase(e2)
Registered(e) == \E u \in users : SameEmail(u.email, e)

\* C11: the response to a login with an email that is not registered and
\* the response to a login with a registered email and a wrong password are
\* identical: same status, same body, no token.
C11_LoginFailureUniform ==
  \A b1, b2 \in RegisterLoginBodies :
    ( /\ ~Registered(b1.email)
      /\ Registered(b2.email) /\ Has(b2, "password")
      /\ \A u \in users : SameEmail(u.email, b2.email) => u.password # BcryptHash(b2.password) )
    => LET r1 == Login(users, b1, now)
           r2 == Login(users, b2, now)
       IN r1.status = r2.status /\ r1.body = r2.body /\ r1.token = r2.token

\* A login with a registered email and a wrong password has been refused
\* while there is an email that nobody registered.
C11_Witness ==
  /\ last.op = "login" /\ last.status = 404
  /\ Registered(last.body.email) /\ Has(last.body, "password")
  /\ \E b \in RegisterLoginBodies : ~Registered(b.email)

\* The login request with the email and password of a registration request
Credentials(body) == [email |-> body.email, password |-> body.password]

\* C12: after a registration succeeds, a login with the same email and
\* password answers 200 with a token that embeds the id of the Identity the
\* registration created.
C12_RegisterThenLogin ==
  /\ \A body \in RegisterBodies :
       LET r == Register(users, body, NextUserId)
       IN r.status = 201 =>
            LET l == Login(r.users, Credentials(body), now)
            IN /\ Cardinality(r.users \ users) = 1
               /\ l.status = 200
               /\ \A u \in r.users \ users : l.token.id = u.id
  /\ (last.op = "register" /\ last.status = 201) =>
       LET l == Login(users, Credentials(last.body), now)
       IN /\ l.status = 200
          /\ \E u \in users : SameEmail(u.email, last.body.email) /\ l.token.id = u.id

\* A login with the email typed as at registration, in another case than
\* the store holds it, has given a token of the registered Identity.
C12_Witness ==
  /\ last.op = "login" /\ last.status = 200
  /\ last.body.email # ToLowerCase(last.body.email)
  /\ \E u \in users, tok \in tokens :
       u.email = ToLowerCase(last.body.email) /\ tok.id = u.id

\* The validation rules of registration, field by field
RuleViolated(body, f) ==
  CASE f \in {"firstName", "lastName"} -> ~Has(body, f) \/ Len(body[f]) < 2 \/ Len(body[f]) > 50
    [] f = "email" -> ~Has(body, f) \/ ~EmailValid(body.email)
    [] f = "password" -> ~Has(body, f) \/ PasswordError(body) # ""
AnyRuleViolated(body) == \E i \in DOMAIN UserPaths : RuleViolated(body, UserPaths[i])
UnknownField(body) ==
  \E f \in DOMAIN body : f \notin {"firstName", "lastName", "email", "password"}

\* C13 as stated: a registration attempt whose email equals a registered
\* one case-insensitively fails with 409 and creates no Identity.
C13_DuplicateEmailIs409 ==
  \A body \in RegisterBodies :
    (Has(body, "email") /\ Registered(body.email)) =>
      LET r == Register(users, body, NextUserId)
      IN r.status = 409 /\ r.users = users

\* C13 (amended): a registration attempt whose email equals a registered
\* one case-insensitively creates no Identity and fails: with 400 when the
\* input violates a validation rule or carries a field that registration
\* does not know, with 409 otherwise.
C13_DuplicateEmailFails ==
  \A body \in RegisterBodies :
    (Has(body, "email") /\ Registered(body.email)) =>
      LET r == Register(users, body, NextUserId)
      IN /\ r.users = users
         /\ r.status = IF AnyRuleViolated(body) \/ UnknownField(body) THEN 400 ELSE 409
         /\ r.status = 409 => r.body = [error |-> "User with given email already exists"]

\* A valid registration with a registered email in another case has been
\* answered 409.
C13_Witness ==
  /\ last.op = "register" /\ last.status = 409
  /\ last.body.email # ToLowerCase(last.body.email)
  /\ \E u \in users : u.email = ToLowerCase(last.body.email)

\* C14: in every reachable state, including those reached by overlapping
\* registrations for the same email, the Identity Store holds at most one
\* Identity per email, compared case-insensitively.
C14_OneIdentityPerEmail ==
  \A u1, u2 \in users : SameEmail(u1.email, u2.email) => u1 = u2

\* Two registrations for one email overlapped: both passed the lookup, one
\* was saved and the save of the other has been refused.
C14_Witness ==
  /\ last.op = "register" /\ last.status = 500
  /\ ~AnyRuleViolated(last.body)
  /\ \E u \in users :
       /\ SameEmail(u.email, last.body.email)
       /\ u.password # BcryptHash(last.body.password)

\* The first field, in the order firstName, lastName, email, password, that
\* violates its rule
FirstViolated(body) ==
  UserPaths[CHOOSE i \in DOMAIN UserPaths :
              /\ RuleViolated(body, UserPaths[i])
              /\ \A j \in 1..(i - 1) : ~RuleViolated(body, UserPaths[j])]

\* The message cites the rule that field f of the body violates: that the
\* field is required when it is missing, another rule of that field when it
\* is present
RuleMessages(f) ==
  {Quoted(f) \o tail : tail \in
     {" is not allowed to be empty",
      " length must be at least 2 characters long",
      " length must be less than or equal to 50 characters long",
      " must be a valid email",
      " should be at least 8 characters long",
      " should not be longer than 26 characters",
      " should contain at least 1 lower-cased letter",
      " should contain at least 1 upper-cased letter",
      " should contain at least 1 number",
      " should contain at least 1 symbol"}}
Cites(msg, body, f) ==
  IF Has(body, f) THEN msg \in RuleMessages(f) ELSE msg = Quoted(f) \o " is required"

Missing(body) == {f \in {"firstName", "lastName", "email", "password"} : ~Has(body, f)}

\* C15 as stated, the rules taken in the order the specification gives
\* them (all fields present, then the lengths of the names, then the email,
\* then the password): a registration that violates a rule is answered 400
\* citing the first violated rule.
C15_FirstRulePresenceFirst ==
  (last.op = "register" /\ AnyRuleViolated(last.body)) =>
    /\ last.status = 400
    /\ IF Missing(last.body) # {}
       THEN \E f \in Missing(last.body) : last.error = Quoted(f) \o " is required"
       ELSE Cites(last.error, last.body, FirstViolated(last.body))

\* C15 (amended): a registration whose input violates a validation rule is
\* answered 400 citing the rule of the first field, in the order firstName,
\* lastName, email, password, that violates its rule (for each field, that
\* it is missing before its other rule); the answer does not depend on the
\* Identity Store, no Identity is created and nothing is left to be saved.
C15_FirstRuleInFieldOrder ==
  /\ \A body \in RegisterBodies :
       AnyRuleViolated(body) =>
         LET r == Register(users, body, NextUserId)
         IN /\ r.status = 400
            /\ Cites(r.body.error, body, FirstViolated(body))
            /\ r.users = users
            /\ Register({}, body, 1).status = 400
            /\ Register({}, body, 1).body = r.body
  /\ (last.op = "register" /\ AnyRuleViolated(last.body)) =>
       last.status = 400 /\ Cites(last.error, last.body, FirstViolated(last.body))
  /\ \A g \in regs : ~AnyRuleViolated(g.body)

\* A registration that violates the rule of the first name and the rule of
\* the email has been answered 400, with an Identity in the store.
C15_Witness ==
  /\ last.op = "register" /\ last.status = 400
  /\ RuleViolated(last.body, "firstName") /\ RuleViolated(last.body, "email")
  /\ users # {}

-----------------------------------------------------------------------------
(* Properties of Update (SpecPatch) *)

-----------------------------------------------------------------------------
(* Properties of the error responses of the Task Service (SpecTask) *)

\* The id is not one of a Task that the identity u owns: it is not a valid
\* identifier, or no Task has it, or the Task that has it is another's
NotOwn(id, u) == \A d \in tasks : d.id = id => d.userId # u

\* C18 as stated: a Get-by-id with an id that is not a valid identifier,
\* with the id of no Task and with the id of a Task of another identity all
\* get the same 404 response.
C18_GetCollapsesThreeCases ==
  (last.op = "get" /\ last.user # 0 /\ NotOwn(last.id, last.user)) =>
    last.status = 404 /\ last.error = "Task not found"

\* C18 (amended): a Get-by-id with the id of no Task and with the id of a
\* Task of another identity get the same 404 response; with an id that is
\* not a valid identifier it gets 400 'Invalid task ID'.
C18_GetCollapsesAbsentAndForeign ==
  /\ \A tok \in ValidTokens : \A id \in IdParams(MaxTasks) :
       NotOwn(id, tok.id) =>
         LET r == GetTaskById(tasks, Bearer(tok), id, now)
         IN IF id = BadId
            THEN r.status = 400 /\ r.body = [error |-> "Invalid task ID"]
            ELSE r.status = 404 /\ r.body = [error |-> "Task not found"]
  /\ (last.op = "get" /\ last.user # 0 /\ NotOwn(last.id, last.user)) =>
       IF last.id = BadId
       THEN last.status = 400 /\ last.error = "Invalid task ID"
       ELSE last.status = 404 /\ last.error = "Task not found"

\* A Get-by-id of a Task of another identity has been answered 404.
C18_Witness ==
  /\ last.op = "get" /\ last.status = 404 /\ last.user # 0
  /\ \E d \in tasks : d.id = last.id /\ d.userId # last.user

-----------------------------------------------------------------------------
(* Properties of the responses to store faults (SpecFault) *)

\* C19: a request during which the store fails is answered 500 with a
\* generic message, whatever the operation; what the store threw is not in
\* the response.
C19_StoreFaultIsGeneric500 ==
  last.fault =>
    /\ last.status = 500
    /\ last.error \in {"Internal server error", "Something went wrong!"}
    /\ last.error \notin StoreFaults

-----------------------------------------------------------------------------
(* Properties of the length limits of Create (SpecBoundary) *)

\* A Create by an authenticated identity that carries a title and a
\* description has been served
CreateWithTexts ==
  /\ last.op = "create" /\ last.user # 0
  /\ Has(last.body, "title") /\ Has(last.body, "description")

\* C20 as stated, the characters being those of the input: a Create with a
\* title of exactly 100 characters (description valid) is accepted and with
\* 101 characters is rejected with 400; likewise a description of 500 and
\* of 501 characters.
C20_BoundaryOfInput ==
  CreateWithTexts =>
    LET title == last.body.title
        description == last.body.description
    IN /\ (Len(title) = 100 /\ Len(description) \in 1..500) => last.status = 201
       /\ Len(title) = 101 => last.status = 400
       /\ (Len(description) = 500 /\ Len(title) \in 1..100) => last.status = 201
       /\ Len(description) = 501 => last.status = 400

\* C20 (amended), the characters being those that are left when leading and
\* trailing white space is removed: 100 characters of title are accepted
\* and 101 rejected with 400, 500 of description accepted and 501 rejected
\* with 400; a rejected Create stores no Task, an accepted one the Task it
\* returns.
C20_BoundaryAfterTrim ==
  /\ CreateWithTexts =>
       LET title == Trim(last.body.title)
           description == Trim(last.body.description)
       IN /\ (Len(title) = 100 /\ Len(description) \in 1..500) => last.status = 201
          /\ Len(title) = 101 => last.status = 400
          /\ (Len(description) = 500 /\ Len(title) \in 1..100) => last.status = 201
          /\ Len(description) = 501 => last.status = 400
  /\ \A tok \in ValidTokens : \A body \in BoundaryBodies :
       LET r == PostTask(tasks, Bearer(tok), body, nextTaskId, now)
           title == Trim(body.title)
           description == Trim(body.description)
       IN IF Len(title) <= 100 /\ Len(description) <= 500
          THEN /\ r.status = 201 /\ r.tasks = tasks \cup {r.body}
               /\ r.body.title = title /\ r.body.description = description
          ELSE r.status = 400 /\ r.tasks = tasks

\* A Create with a title of 101 characters has been rejected while the
\* store holds a Task with a title of 100 characters and a description of
\* 500.
C20_Witness ==
  /\ CreateWithTexts /\ last.status = 400
  /\ Len(Trim(last.body.title)) = 101
  /\ \E d \in tasks : Len(d.title) = 100 /\ Len(d.description) = 500

-----------------------------------------------------------------------------
(* Properties of the profile Update (SpecProfile) *)

\* C21: a profile Update changes nothing but the first and last name of
\* the caller's own Identity. Whatever the header and whatever fields the
\* body carries, and whether the Update succeeds or fails: every Identity
\* keeps its email and its password hash, every Identity other than the
\* caller's is unchanged, no Identity is added or removed, a failed Update
\* changes nothing at all, and the response never contains a password
\* hash. Hence every stored Identity still has the email and the password
\* hash it was registered with.
C21_ProfileUpdateFrame ==
  /\ \A hdr \in AnyHeaders : \A body \in ProfileEditBodies :
       LET r == PutUserProfile(users, hdr, body, now)
           gate == Auth(hdr, now)
       IN /\ r.status # 200 => r.users = users
          /\ Cardinality(r.users) = Cardinality(users)
          /\ \A u \in users : \E n \in r.users :
               /\ n.id = u.id /\ n.email = u.email /\ n.password = u.password
               /\ (~gate.next \/ gate.user # u.id) => n = u
          /\ ~Has(r.body, "password")
  /\ \A u \in users : \E o \in {Ann, Bob} :
       o.id = u.id /\ o.email = u.email /\ o.password = u.password

\* A profile Update whose body names the email and the password of another
\* identity has succeeded and has changed the caller's names.
C21_Witness ==
  /\ last.op = "editProfile" /\ last.status = 200
  /\ Has(last.body, "email") /\ Has(last.body, "password")
  /\ \E u \in users :
       /\ u.id = last.user /\ u.email # last.body.email
       /\ u.firstName = last.body.firstName /\ u.firstName # Ann.firstName

-----------------------------------------------------------------------------
(* Properties of an Update racing a Delete (SpecTask) *)

\* Each handler makes one call to the store, findOneAndUpdate or
\* findOneAndDelete, which the store applies to the document atomically,
\* and reads nothing from the store before it: two concurrent requests are
\* served in the order of their store calls.
NoTask(store, id) == \A d \in store : d.id # id

\* C22: an Update (one that is accepted when served alone) and a Delete of
\* the same Task by its owner that run concurrently have two outcomes only:
\* the Update is applied first and both succeed, or the Delete is applied
\* first, it succeeds and the Update is answered 404; in both the Task is
\* absent at the end.
C22_UpdateDeleteRace ==
  \A d \in tasks : \A tok \in TokensOf(d.userId) : \A body \in UpdateBodies :
    LET hdr == Bearer(tok)
        updateFirst == PutTask(tasks, hdr, d.id, body, now)
        thenDelete == DeleteTaskById(updateFirst.tasks, hdr, d.id, now)
        deleteFirst == DeleteTaskById(tasks, hdr, d.id, now)
        thenUpdate == PutTask(deleteFirst.tasks, hdr, d.id, body, now)
    IN updateFirst.status = 200 =>
         /\ thenDelete.status = 200 /\ NoTask(thenDelete.tasks, d.id)
         /\ deleteFirst.status = 200 /\ thenUpdate.status = 404
         /\ NoTask(thenUpdate.tasks, d.id)

-----------------------------------------------------------------------------
(* Properties of the stored Tasks (SpecStatus) *)

\* C23: after any sequence of Create and Update requests, whatever their
\* bodies (a null or empty status included), every Task in the Task Store
\* has a status of the enumeration, a non-empty title of at most 100
\* characters and a non-empty description of at most 500 characters.
C23_StoredTasksValid ==
  \A d \in tasks :
    /\ d.status \in {"pending", "in-progress", "completed"}
    /\ d.title # <<>> /\ Len(d.title) <= 100
    /\ d.description # <<>> /\ Len(d.description) <= 500

-----------------------------------------------------------------------------
(* Properties of the ownership of Tasks (SpecTask) *)

\* C24: the owner of a Task never changes. In every reachable state each
\* Task is owned by the identity whose token created it, whatever fields
\* (an owner reference included) the bodies of the Updates carried; hence
\* the List of an identity holds no Task that the identity did not create.
C24_OwnerNeverChanges ==
  /\ \A d \in tasks : d.userId = creator[d.id]
  /\ \A u \in UserIds : \A tok \in TokensOf(u) : \A query \in ListQueries :
       \A r \in GetTasks(tasks, Bearer(tok), query, now) :
         r.status = 200 => \A i \in DOMAIN r.body : creator[r.body[i].id] = u

-----------------------------------------------------------------------------
(* Properties of the client store (SpecClient) *)

\* The Tasks a List by the identity of the token in localStorage would
\* return from a store: the sequences it may answer with
FreshList(store) ==
  {r.body : r \in {q \in GetTasks(store, Bearer(storage), <<>>, now) : q.status = 200}}

\* No request is in flight
Quiet == thunks = {}

\* C25: for one logged-in user whose requests all succeed, in every
\* interleaving of the dispatches and responses of fetchTasks, addTask,
\* updateTask and deleteTask: once no request is in flight, the items of
\* the client store are exactly the Tasks the server holds for that user
\* (so a fetchTasks response that arrives after an add, update or delete
\* has not undone it).
C25_StoreConverges ==
  Quiet => Range(slice.items) = {d \in tasks : d.userId = storage.id}

\* C27: the items of the client store never hold two entries with the same
\* Task id, in every interleaving of fetchTasks and addTask responses.
C27_NoDuplicateIds ==
  \A i, j \in DOMAIN slice.items : i # j => slice.items[i].id # slice.items[j].id

\* C28: when addTask is fulfilled in a client store that holds what a List
\* returned before the Task was created, the items are afterwards what a
\* fresh List returns: newest first, the new Task at the front.
C28_AddMatchesFreshList ==
  \A thunk \in thunks :
    ( /\ thunk.type = "addTask" /\ thunk.response.status = 201
      /\ thunk.response.data \in tasks
      /\ slice.items \in FreshList(tasks \ {thunk.response.data}) ) =>
        taskReducer(slice, Settled(thunk)).items \in FreshList(tasks)

-----------------------------------------------------------------------------
(* Properties of the client store across logins (SpecSession) *)

\* C26: after a logout the client store holds no Task of the identity that
\* logged out, from the logout until the first fetchTasks of the next login
\* is fulfilled (and so for as long as that fetch is pending or has been
\* rejected).
C26_NoTaskOfLoggedOutUser ==
  (session.previous # 0 /\ ~session.fetched) =>
    \A i \in DOMAIN slice.items : slice.items[i].userId # session.previous

\* C29: the status of the slice is one of idle, loading, succeeded, failed,
\* and its error is non-null only while the status is failed, under any
\* sequence or overlap of fetchTasks requests.
C29_ErrorOnlyWhileFailed ==
  /\ slice.status \in {"idle", "loading", "succeeded", "failed"}
  /\ slice.error # Null => slice.status = "failed"

-----------------------------------------------------------------------------
(* Properties of the Signup page (SpecSignup) *)

Count201(answers) == Cardinality({i \in DOMAIN answers : answers[i] = 201})

\* C30: the Signup page announces success only after the server has
\* answered the registration with 201: it has never announced more
\* successes than it has got 201 answers; and when the registration fails
\* no success is announced for it, the page stays the Signup page and
\* shows the error of the response.
C30_SuccessOnlyAfter201 ==
  /\ signup.alerts <= Count201(signup.answers)
  /\ signup.posted # <<>> =>
       LET r == Register(users, signup.posted, NextUserId)
           next == SignupSettle(signup, r)
       IN r.status >= 400 =>
            /\ next.page = "/signup"
            /\ next.form.errors = [submit |-> r.body.error]
            /\ next.form.alerts <= Count201(next.form.answers)

====
